---- MODULE Spec2Model ----
(***************************************************************************)
(* SHL assessment recommendation system.                                   *)
(*                                                                         *)
(*   src/src/engine/llm_handler.py       LLMHandler.rerank                 *)
(*   src/src/engine/retriever.py         Retriever.search                  *)
(*   src/src/ui/streamlit_app.py         the search button handler         *)
(*   src/evaluations/calculate_metrics.py                                  *)
(*                        extract_assessment_name, calculate_metrics       *)
(*                                                                         *)
(* Python lists are sequences; a Python index idx (0-based) addresses      *)
(* element idx + 1 of the sequence.  Strings the code inspects character   *)
(* by character are sequences of one-character strings.                    *)
(***************************************************************************)
EXTENDS Integers, Sequences, FiniteSets, TLC

VARIABLES
    \* ---- LLMHandler (llm_handler.py) ----
    model,          \* self.model: TRUE = a Gemini model object, FALSE = None
    query,          \* rerank's argument query
    results,        \* rerank's argument results (the candidates)
    well_formed,    \* every candidate dict carries 'name' and 'test_type'
    llm_requested,  \* generate_content was called during the last rerank
    prompt,         \* the candidate list as numbered in the prompt sent
    llm_response,   \* what came back from the LLM in that call
    rr,             \* the outcome of the last rerank call
    \* ---- search button handler (streamlit_app.py) ----
    engine,         \* load_engine gave (retriever, llm) rather than (None, None)
    job_query,      \* the text input read at line 151
    test_type,      \* the selectbox value read at line 162
    limit,          \* the number input read at line 173
    search_failed,  \* collection.query raised inside Retriever.search
    retrieved,      \* what retriever.search returned
    session_results,\* st.session_state["results"]
    search_pressed, \* st.session_state["search_pressed"]
    \* ---- extract_assessment_name (calculate_metrics.py) ----
    url,            \* the argument: [is_str, s]
    name,           \* extract_assessment_name(url)
    name_again,     \* extract_assessment_name(name)
    norm_pc,        \* "input", "once" or "twice"
    \* ---- calculate_metrics (calculate_metrics.py) ----
    has_query_col,  \* the dataset has a column 'Query'
    rows_left,      \* rows of df the loop has not visited yet
    row,            \* the row visited last
    response,       \* what the API call for that row came to
    processed,      \* processed
    success_count,  \* success_count
    eval_pc,        \* "loop", "done", "crashed" (an uncaught exception)
    report          \* what the run printed at its end

rerank_vars == <<model, query, results, well_formed, llm_requested, prompt,
                 llm_response, rr>>

pipeline_vars == <<engine, job_query, test_type, limit, search_failed, retrieved,
                   session_results, search_pressed>>

norm_vars == <<url, name, name_again, norm_pc>>

eval_vars == <<has_query_col, rows_left, row, response, processed, success_count,
               eval_pc, report>>

vars == <<rerank_vars, pipeline_vars, norm_vars, eval_vars>>

----------------------------------------------------------------------------
(* Bounds of the model.                                                    *)

MaxCands == 12      \* longest candidate list handed to rerank
MaxFree  == 2       \* longest LLM answer enumerated entry by entry
MaxRun   == 12      \* longest LLM answer enumerated as a run of indices
MaxStart == 1       \* largest first index of such a run
MaxRetrieved == 2   \* longest list Retriever.search returns to the handler
MaxLen == 4         \* longest enumerated argument of extract_assessment_name
MaxRows == 3        \* most rows of an evaluation dataset
MaxEvalRecs == 1    \* most recommendations per answer in a whole run
MaxRecs == 2        \* most recommendations in the answer to a single record

(* Program constants.                                                      *)

TargetSize == 10    \* results[:10], len(final_results) >= 10
MinResults == 5     \* len(final_results) < 5

----------------------------------------------------------------------------
(* Generic helpers for Python list operations.                             *)

Min(a, b) == IF a <= b THEN a ELSE b

\* s[:k]
Take(s, k) == SubSeq(s, 1, Min(k, Len(s)))

\* s[idx] for a 0-based idx
At(s, idx) == s[idx + 1]

\* The state of the parts a specification leaves out.
NormIdle == url = [is_str |-> TRUE, s |-> <<>>] /\ name = <<>> /\ name_again = <<>> /\ norm_pc = "idle"

NoRow == [query |-> [kind |-> "absent", s |-> <<>>], url |-> [kind |-> "absent", s |-> <<>>]]
NoCall == [kind |-> "none", recs |-> <<>>]
NoReport == [kind |-> "none", hits |-> 0, of |-> 0]

EvalIdle ==
    /\ has_query_col = TRUE /\ rows_left = 0 /\ row = NoRow /\ response = NoCall
    /\ processed = 0 /\ success_count = 0 /\ eval_pc = "idle" /\ report = NoReport

----------------------------------------------------------------------------
(* LLMHandler.rerank                                                       *)

Queries == {"java developer", "java developer with teamwork"}

\* The candidate list of length n: distinct assessments in retrieval order.
\* The assessment at position idx (0-based) has id 101 + idx.
Cands(n) == [i \in 1..n |-> 100 + i]

\* One element of the parsed JSON value.  json.loads yields Python ints for
\* JSON integers, Python bools for true/false, and floats, strings, None,
\* lists or dicts for everything else.
IntEntry(v)  == [t |-> "int",  v |-> v]
BoolEntry(v) == [t |-> "bool", v |-> v]     \* True == 1, False == 0
OtherEntry   == [t |-> "other", v |-> 0]

Entries(n) == {IntEntry(v) : v \in (-1)..n} \cup {BoolEntry(0), BoolEntry(1), OtherEntry}

RECURSIVE SeqsUpTo(_, _)
SeqsUpTo(S, k) ==
    IF k = 0 THEN {<<>>}
    ELSE LET shorter == SeqsUpTo(S, k - 1)
         IN  shorter \cup {Append(s, e) : s \in {x \in shorter : Len(x) = k - 1}, e \in S}

\* The answer start, start+1, ... (len entries), each taken modulo m.
Run(start, len, m) == [j \in 1..len |-> IntEntry((start + j - 1) % m)]

\* The JSON arrays the model lets the LLM answer for n candidates.
Arrays(n) ==
    SeqsUpTo(Entries(n), MaxFree)
    \cup {Run(s, l, m) : s \in 0..MaxStart, l \in 1..MaxRun, m \in 1..(n + 1)}

\* What one LLM request can come to:
\*   request_error   generate_content or response.text raises (line 80, 83)
\*   parse_error     json.loads raises: the text is not JSON (line 89, 93)
\*   not_iterable    no [...] in the text and it parses to a number, a bool
\*                   or null: the for loop raises TypeError (line 98)
\*   non_array       no [...] in the text and it parses to a JSON string:
\*                   the loop walks its characters (line 98)
\*   array           the text holds a JSON array (line 89)
NoResponse == [kind |-> "none", items |-> <<>>]

Responses(n) ==
    {[kind |-> k, items |-> <<>>] : k \in {"request_error", "parse_error", "not_iterable"}}
    \cup {[kind |-> "non_array", items |-> [j \in 1..l |-> OtherEntry]] : l \in 0..2}
    \cup {[kind |-> "array", items |-> a] : a \in Arrays(n)}

\* isinstance(idx, int) and 0 <= idx < len(results)       (line 99)
\* bool is a subclass of int in Python, so True and False pass isinstance.
IsValidIdx(e, n) == e.t \in {"int", "bool"} /\ 0 <= e.v /\ e.v < n

\* The loop of lines 96-101: final_results.
RECURSIVE Selected(_, _)
Selected(items, res) ==
    IF items = <<>> THEN <<>>
    ELSE LET e == Head(items)
         IN  IF IsValidIdx(e, Len(res))
             THEN <<At(res, e.v)>> \o Selected(Tail(items), res)
             ELSE Selected(Tail(items), res)

\* The loop of lines 96-101: already_added.
AlreadyAdded(items, n) == {items[j].v : j \in {i \in 1..Len(items) : IsValidIdx(items[i], n)}}

\* The loop of lines 110-114, from index idx on.
RECURSIVE TopUpFrom(_, _, _, _)
TopUpFrom(final, added, res, idx) ==
    IF idx >= Len(res) THEN final
    ELSE LET f2 == IF idx \notin added THEN Append(final, At(res, idx)) ELSE final
         IN  IF Len(f2) >= TargetSize THEN f2
             ELSE TopUpFrom(f2, added, res, idx + 1)

\* TopUp without lines 108-114: the selection is returned as it is.
TopUpDropped(final, added, res) == final

\* Lines 108-116.
TopUp(final, added, res) ==
    IF Len(final) < MinResults THEN TopUpFrom(final, added, res, 0) ELSE final

\* return results[:10]                          (lines 50, 106, 121)
Fallback(res) == Take(res, TargetSize)

\* Lines 95-116: from the parsed value to the returned list.
FromIndices(items, res) ==
    LET final == Selected(items, res)
    IN  IF final = <<>> THEN Fallback(res)
        ELSE TopUp(final, AlreadyAdded(items, Len(res)), res)

\* The guard of line 49 without its test of self.model.
SkipsLLMOnlyWhenEmpty(m, res) == res = <<>>

\* The guard of line 49: not self.model or not results.
SkipsLLM(m, res) == ~m \/ res = <<>>

\* Lines 78-121: the try block and its except.
AfterRequest(resp, res) ==
    IF resp.kind \in {"request_error", "parse_error", "not_iterable"}
    THEN Fallback(res)
    ELSE FromIndices(resp.items, res)

\* The outcome of a call: it returned value, or it raised to its caller.
Returned(v) == [status |-> "returned", value |-> v]
Raised      == [status |-> "raised",   value |-> <<>>]
NotCalled   == [status |-> "idle",     value |-> <<>>]

\* rerank(query, results) as a whole.  The prompt is built (lines 54-57)
\* outside the try block: res['name'] raises KeyError to the caller when a
\* candidate lacks the key.
RerankOutcome(m, res, wf, resp) ==
    IF SkipsLLM(m, res) THEN Returned(Fallback(res))
    ELSE IF ~wf THEN Raised
    ELSE Returned(AfterRequest(resp, res))

\* The number printed in front of the candidate at index idx: idx + 1
\* (line 55).
PromptNumber(idx) == idx + 1

\* The CANDIDATE LIST of the prompt (lines 53-57, 75): one numbered entry
\* per candidate, in the order of results.
PromptList(res) == [i \in 1..Len(res) |-> [number |-> PromptNumber(i - 1), cand |-> res[i]]]

\* Whether rerank gets as far as generate_content (line 80).
IssuesRequest(m, res, wf) == ~SkipsLLM(m, res) /\ wf

\* One call of rerank(q, res) on a freshly constructed handler.
Rerank(q, res, wf, resp) ==
    /\ rr = NotCalled
    /\ query' = q
    /\ results' = res
    /\ well_formed' = wf
    /\ llm_requested' = IssuesRequest(model, res, wf)
    /\ prompt' = IF IssuesRequest(model, res, wf) THEN PromptList(res) ELSE <<>>
    /\ llm_response' = IF IssuesRequest(model, res, wf) THEN resp ELSE NoResponse
    /\ rr' = RerankOutcome(model, res, wf, resp)
    /\ UNCHANGED model

\* The responses to enumerate for a call: one LLM response per request, and
\* none when the call never reaches generate_content.
ResponsesFor(m, res, wf) ==
    IF IssuesRequest(m, res, wf) THEN Responses(Len(res)) ELSE {NoResponse}

RerankCall ==
    /\ rr = NotCalled
    /\ \E q \in Queries, n \in 0..MaxCands, wf \in BOOLEAN :
        \E resp \in ResponsesFor(model, Cands(n), wf) : Rerank(q, Cands(n), wf, resp)

NextRerank == RerankCall /\ UNCHANGED <<pipeline_vars, norm_vars, eval_vars>>

----------------------------------------------------------------------------
(* Retriever.search and the search button handler of streamlit_app.py      *)

\* The selectbox options of lines 124-126.
AllTypes == "All Types"
TypeOptions == {AllTypes, "Knowledge & Skills", "Personality & Behavior",
                "Ability & Aptitude", "Simulations"}

\* min_value=1, max_value=10 of the number input (line 131).
MinLimit == 1
MaxLimit == 10

\* A candidate's test_type metadata: a string naming one or more categories,
\* written as the sequence of the category names it holds.
TypeStrings == {<<"Knowledge & Skills">>, <<"Personality & Behavior", "Simulations">>}

\* needle in hay, for sequences (Python's substring test on str).
IsSubstring(needle, hay) ==
    \E k \in 0..(Len(hay) - Len(needle)) :
        \A i \in 1..Len(needle) : hay[k + i] = needle[i]

\* The lists Retriever.search can build (lines 61-71): distinct ids, each
\* with its metadata.
RECURSIVE HitLists(_)
HitLists(n) ==
    IF n = 0 THEN {<<>>}
    ELSE {Append(h, [id |-> 200 + n, test_type |-> t]) : h \in HitLists(n - 1), t \in TypeStrings}

\* Retriever.search (lines 53-75): the cleaned results, or [] when the
\* query to the collection raises.
RetrieverSearch(failed, hits) == IF failed THEN <<>> ELSE hits

\* Line 163: [r for r in results if test_type in str(r.get('test_type', ''))]
RECURSIVE FilterByType(_, _)
FilterByType(t, res) ==
    IF res = <<>> THEN <<>>
    ELSE IF IsSubstring(<<t>>, Head(res).test_type)
         THEN <<Head(res)>> \o FilterByType(t, Tail(res))
         ELSE FilterByType(t, Tail(res))

\* Lines 161-163.
ApplyTypeFilter(t, res) == IF t # AllTypes THEN FilterByType(t, res) ELSE res

\* Lines 166-170: results after the rerank step; an exception of rerank is
\* swallowed and leaves the filtered results.
AfterRerank(outcome, filtered) ==
    IF outcome.status = "raised" THEN filtered ELSE outcome.value

\* Line 173 without the slice.
CapDropped(res, l) == res

\* Line 173: results[:limit]
Cap(res, l) == Take(res, l)

InitPipeline ==
    /\ model \in BOOLEAN            \* LLMHandler() at line 85
    /\ query = "" /\ results = <<>> /\ well_formed = TRUE
    /\ llm_requested = FALSE /\ llm_response = NoResponse /\ rr = NotCalled
    /\ prompt = <<>>
    /\ engine \in BOOLEAN           \* load_engine() at line 104
    /\ job_query = ""
    /\ test_type = AllTypes
    /\ limit = MaxLimit             \* value=10 (line 131)
    /\ search_failed = FALSE
    /\ retrieved = <<>>
    /\ session_results = <<>>
    /\ search_pressed = FALSE       \* lines 142-143
    /\ NormIdle /\ EvalIdle

\* Lines 150-152: the button pressed with an empty query: st.error, and the
\* session state is left as it is.
SearchEmptyQuery ==
    /\ job_query' = ""
    /\ UNCHANGED <<engine, test_type, limit, search_failed, retrieved,
                   session_results, search_pressed>>
    /\ UNCHANGED <<rerank_vars, norm_vars, eval_vars>>

\* Lines 153-175 with a retriever: search, filter, rerank, cap, store.
SearchWithEngine(q, t, l, failed, hits, wf, resp) ==
    LET found    == RetrieverSearch(failed, hits)
        filtered == ApplyTypeFilter(t, found)
    IN  /\ engine
        /\ ~search_pressed
        /\ job_query' = q /\ test_type' = t /\ limit' = l
        /\ search_failed' = failed
        /\ retrieved' = found
        /\ Rerank(q, filtered, wf, resp)
        /\ session_results' = Cap(AfterRerank(RerankOutcome(model, filtered, wf, resp), filtered), l)
        /\ search_pressed' = TRUE
        /\ UNCHANGED <<engine, norm_vars, eval_vars>>

\* Lines 153-175 without a retriever (line 175).
SearchWithoutEngine(q, t, l) ==
    /\ ~engine
    /\ ~search_pressed
    /\ job_query' = q /\ test_type' = t /\ limit' = l
    /\ session_results' = <<>>
    /\ search_pressed' = TRUE
    /\ UNCHANGED <<engine, search_failed, retrieved>>
    /\ UNCHANGED <<rerank_vars, norm_vars, eval_vars>>

\* One run of the pipeline is followed: a later run replaces
\* st.session_state["results"] whole (line 173).
SearchButton ==
    /\ ~search_pressed
    /\ \E q \in Queries, t \in TypeOptions, l \in MinLimit..MaxLimit :
        \/ SearchWithoutEngine(q, t, l)
        \/ \E failed \in BOOLEAN, n \in 0..MaxRetrieved, wf \in BOOLEAN :
             \E hits \in (IF failed THEN {<<>>} ELSE HitLists(n)) :
               \E resp \in ResponsesFor(model, ApplyTypeFilter(t, hits), wf) :
                 /\ (failed => n = 0)
                 /\ SearchWithEngine(q, t, l, failed, hits, wf, resp)

NextPipeline == SearchButton \/ SearchEmptyQuery

SpecPipeline == InitPipeline /\ [][NextPipeline]_vars

\* A handler on its own: no streamlit script around it.
InitRerankAlone ==
    /\ model \in BOOLEAN /\ query = "" /\ results = <<>> /\ well_formed = TRUE
    /\ llm_requested = FALSE /\ llm_response = NoResponse /\ rr = NotCalled
    /\ prompt = <<>>
    /\ engine = FALSE /\ job_query = "" /\ test_type = "All Types" /\ limit = 10
    /\ search_failed = FALSE /\ retrieved = <<>> /\ session_results = <<>>
    /\ search_pressed = FALSE
    /\ NormIdle /\ EvalIdle

SpecRerank == InitRerankAlone /\ [][NextRerank]_vars

----------------------------------------------------------------------------
(* extract_assessment_name (calculate_metrics.py, lines 19-57)             *)
(* A str is the sequence of its characters.                                *)

\* Characters that have no one-character TLA+ string are written as names.
Whitespace == {" ", "<tab>", "<newline>", "<return>"}

LowerLetters == <<"a","b","c","d","e","f","g","h","i","j","k","l","m",
                  "n","o","p","q","r","s","t","u","v","w","x","y","z">>
UpperLetters == <<"A","B","C","D","E","F","G","H","I","J","K","L","M",
                  "N","O","P","Q","R","S","T","U","V","W","X","Y","Z">>
Digits == <<"0","1","2","3","4","5","6","7","8","9">>

Range(f) == {f[i] : i \in DOMAIN f}

IndexIn(c, f) == CHOOSE i \in DOMAIN f : f[i] = c

\* str.lower() on one character.
LowerChar(c) == IF c \in Range(UpperLetters) THEN LowerLetters[IndexIn(c, UpperLetters)] ELSE c

Lower(s) == [i \in 1..Len(s) |-> LowerChar(s[i])]

\* s.lstrip(chars), s.rstrip(chars), s.strip(chars)
RECURSIVE LStrip(_, _)
LStrip(s, chars) ==
    IF s # <<>> /\ Head(s) \in chars THEN LStrip(Tail(s), chars) ELSE s

RECURSIVE RStrip(_, _)
RStrip(s, chars) ==
    IF s # <<>> /\ s[Len(s)] \in chars THEN RStrip(SubSeq(s, 1, Len(s) - 1), chars) ELSE s

Strip(s, chars) == LStrip(RStrip(s, chars), chars)

\* s.split(c, 1)[0]: what precedes the first c, or all of s.
RECURSIVE BeforeFirst(_, _)
BeforeFirst(s, c) ==
    IF s = <<>> \/ Head(s) = c THEN <<>>
    ELSE <<Head(s)>> \o BeforeFirst(Tail(s), c)

\* [p for p in s.split(c) if p], with cur the part being read.
RECURSIVE SplitNonEmpty(_, _, _)
SplitNonEmpty(s, c, cur) ==
    IF s = <<>> THEN (IF cur = <<>> THEN <<>> ELSE <<cur>>)
    ELSE IF Head(s) = c
         THEN (IF cur = <<>> THEN <<>> ELSE <<cur>>) \o SplitNonEmpty(Tail(s), c, <<>>)
         ELSE SplitNonEmpty(Tail(s), c, Append(cur, Head(s)))

\* urllib.parse.unquote: %XX with two hex digits (either case) becomes the
\* byte XX; a % not followed by two hex digits stays.  The bytes are decoded
\* as UTF-8 with errors='replace': an ASCII byte is its character, and the
\* bytes from 0x80 on come out as characters outside ASCII.
HexDigits == <<"0","1","2","3","4","5","6","7","8","9","A","B","C","D","E","F">>
IsHex(c) == LowerChar(c) \in Range(Lower(HexDigits))
HexVal(c) == IndexIn(LowerChar(c), Lower(HexDigits)) - 1

\* The printable ASCII characters, from 0x20 (space) to 0x7E (~).
Printable ==
    <<" ","!","<quote>","#","$","%","&","'","(",")","*","+",",","-",".","/",
      "0","1","2","3","4","5","6","7","8","9",":",";","<","=",">","?",
      "@","A","B","C","D","E","F","G","H","I","J","K","L","M","N","O",
      "P","Q","R","S","T","U","V","W","X","Y","Z","[","<backslash>","]","^","_",
      "<backtick>","a","b","c","d","e","f","g","h","i","j","k","l","m","n","o",
      "p","q","r","s","t","u","v","w","x","y","z","{","|","}","~">>

ByteChar(b) ==
    IF b >= 128 THEN "<non-ascii>"
    ELSE IF b >= 32 /\ b <= 126 THEN Printable[b - 31]
    ELSE IF b = 9 THEN "<tab>" ELSE IF b = 10 THEN "<newline>" ELSE IF b = 13 THEN "<return>"
    ELSE "<control>"

RECURSIVE Unquote(_)
Unquote(s) ==
    IF s = <<>> THEN <<>>
    ELSE IF Head(s) = "%" /\ Len(s) >= 3 /\ IsHex(s[2]) /\ IsHex(s[3])
         THEN <<ByteChar(16 * HexVal(s[2]) + HexVal(s[3]))>> \o Unquote(SubSeq(s, 4, Len(s)))
         ELSE <<Head(s)>> \o Unquote(Tail(s))

\* Line 37: s.split('?', 1)[0].split('#', 1)[0]
DropQueryAndFragment(s) == BeforeFirst(BeforeFirst(s, "?"), "#")

\* parts[0] in place of parts[-1] at line 49.
FirstPart(parts) == IF parts # <<>> THEN Lower(parts[1]) ELSE <<>>

\* Line 49: parts[-1].lower() if parts else ""
LastPart(parts) == IF parts # <<>> THEN Lower(parts[Len(parts)]) ELSE <<>>

\* Line 52: re.sub(r'[^a-z0-9\-]', '', name)
IsSlugChar(c) == c \in Range(LowerLetters) \cup Range(Digits) \cup {"-"}
KeepSlugChars(s) == SelectSeq(s, IsSlugChar)

\* Line 55: re.sub(r'\-+', '-', name)
RECURSIVE CollapseHyphens(_)
CollapseHyphens(s) ==
    IF Len(s) < 2 THEN s
    ELSE IF s[1] = "-" /\ s[2] = "-" THEN CollapseHyphens(Tail(s))
         ELSE <<Head(s)>> \o CollapseHyphens(Tail(s))

\* Lines 52-55 with the two substitutions in the other order.
CleanNameFilterLast(n) == KeepSlugChars(Strip(CollapseHyphens(n), {"-"}))

\* Lines 52-55.
CleanName(n) == Strip(CollapseHyphens(KeepSlugChars(n)), {"-"})

\* Lines 32-57, for a str argument.
ExtractFromStr(u) ==
    LET s1 == Strip(u, Whitespace)
        s2 == Unquote(DropQueryAndFragment(s1))
        s3 == LStrip(RStrip(s2, {"/"}), {"/"})
    IN  IF s1 = <<>> THEN <<>>
        ELSE IF s3 = <<>> THEN <<>>
        ELSE CleanName(LastPart(SplitNonEmpty(s3, "/", <<>>)))

\* extract_assessment_name(url): "" for an argument that is not a str.
ExtractAssessmentName(u) == IF ~u.is_str THEN <<>> ELSE ExtractFromStr(u.s)

Str(s) == [is_str |-> TRUE, s |-> s]
NotAStr == [is_str |-> FALSE, s |-> <<>>]       \* None, a float (NaN), ...

\* The characters of the enumerated arguments.
NormChars == {"a", "B", "-", "/", "?", "#", "%", " ", "2", "F"}

UrlFooBar == <<"h","t","t","p","s",":","/","/","x",".","c","o","m","/",
               "F","o","o","-","B","a","r","/","?","q","=","1">>
PathABC == <<"/","a","/","b","/","c","/">>

NormInputs ==
    {Str(s) : s \in SeqsUpTo(NormChars, MaxLen)} \cup {Str(UrlFooBar), Str(PathABC), NotAStr}

InitNorm ==
    /\ url \in NormInputs
    /\ name = <<>> /\ name_again = <<>> /\ norm_pc = "input"
    /\ model = FALSE /\ query = "" /\ results = <<>> /\ well_formed = TRUE
    /\ llm_requested = FALSE /\ llm_response = NoResponse /\ rr = NotCalled
    /\ prompt = <<>>
    /\ engine = FALSE /\ job_query = "" /\ test_type = "All Types" /\ limit = 10
    /\ search_failed = FALSE /\ retrieved = <<>> /\ session_results = <<>>
    /\ search_pressed = FALSE
    /\ EvalIdle

\* name = extract_assessment_name(url)
Extract ==
    /\ norm_pc = "input"
    /\ name' = ExtractAssessmentName(url)
    /\ norm_pc' = "once"
    /\ UNCHANGED <<url, name_again, rerank_vars, pipeline_vars, eval_vars>>

\* name_again = extract_assessment_name(name)
ExtractAgain ==
    /\ norm_pc = "once"
    /\ name_again' = ExtractAssessmentName(Str(name))
    /\ norm_pc' = "twice"
    /\ UNCHANGED <<url, name, rerank_vars, pipeline_vars, eval_vars>>

NextNorm == Extract \/ ExtractAgain

SpecNorm == InitNorm /\ [][NextNorm]_vars

----------------------------------------------------------------------------
(* calculate_metrics (calculate_metrics.py, lines 60-165)                  *)

\* A cell of the DataFrame read by pd.read_csv, or a value of the JSON
\* answer: a str, NaN (an empty CSV cell), None (JSON null), or nothing at
\* all (no such column or key, so that .get returns its default).
TextCell(s) == [kind |-> "text", s |-> s]
NaNCell     == [kind |-> "nan", s |-> <<>>]
NoneCell    == [kind |-> "none", s |-> <<>>]
AbsentCell  == [kind |-> "absent", s |-> <<>>]

\* str(x.get(key, "")): the text itself, "nan" for NaN, "None" for None and
\* the default "" for a missing key.
PyStr(c) ==
    CASE c.kind = "text"   -> c.s
      [] c.kind = "nan"    -> <<"n","a","n">>
      [] c.kind = "none"   -> <<"N","o","n","e">>
      [] c.kind = "absent" -> <<>>

\* Python truth of row.get('Query', ""): a str is true unless empty, and
\* NaN, a non-zero float, is true.
Truthy(c) ==
    CASE c.kind = "text"   -> c.s # <<>>
      [] c.kind = "nan"    -> TRUE
      [] c.kind = "none"   -> FALSE
      [] c.kind = "absent" -> FALSE

\* Lines 90-91 and 126-127: extract_assessment_name(str(cell).strip())
SlugOf(c) == ExtractAssessmentName(Str(Strip(PyStr(c), Whitespace)))

UJava        == <<"/","j","a","v","a">>
UJavascript  == <<"/","j","a","v","a","s","c","r","i","p","t">>
UJavaDev     == <<"/","j","a","v","a","-","d","e","v","e","l","o","p","e","r","/">>
UJavaDevTest == <<"/","v","/","j","a","v","a","-","d","e","v","e","l","o","p","e","r","-","t","e","s","t">>
USql         == <<"/","s","q","l">>
UNoSlug      == <<"?","q">>
QJava        == <<"J","a","v","a">>

\* One element of recommended_assessments: a dict with its 'url' value, or
\* something that is no dict (res.get raises AttributeError, line 126).
DictItem(c) == [is_dict |-> TRUE, url |-> c]
NonDictItem == [is_dict |-> FALSE, url |-> AbsentCell]

\* What the call for one row can come to:
\*   request_error  requests.post raises, a timeout included (line 101)
\*   api_error      status_code != 200                         (line 106)
\*   invalid_json   response.json() raises                     (line 113)
\*   not_dict       the JSON value is no object: data.get raises (line 117)
\*   recs_null      "recommended_assessments" is null: len raises (line 120)
\*   recs           "recommended_assessments" is a list (the key missing: [])
CallOutcomes(items, maxlen) ==
    {[kind |-> k, recs |-> <<>>] :
        k \in {"request_error", "api_error", "invalid_json", "not_dict", "recs_null"}}
    \cup {[kind |-> "recs", recs |-> r] : r \in SeqsUpTo(items, maxlen)}

\* s.endswith(suffix)
EndsWith(s, suffix) ==
    Len(suffix) <= Len(s) /\ SubSeq(s, Len(s) - Len(suffix) + 1, Len(s)) = suffix

\* Lines 134-138 with exact matching only.
MatchesExactly(res_name, target_name) == res_name # <<>> /\ res_name = target_name

\* Lines 134-138: the relaxed match of one recommendation.
Matches(res_name, target_name) ==
    /\ res_name # <<>>
    /\ \/ res_name = target_name
       \/ EndsWith(res_name, target_name)
       \/ EndsWith(target_name, res_name)
       \/ IsSubstring(target_name, res_name)
       \/ IsSubstring(res_name, target_name)

\* The loop of lines 125-140: "found", "missed", or "crashed" at an element
\* that is no dict.
RECURSIVE Scan(_, _)
Scan(recs, target_name) ==
    IF recs = <<>> THEN "missed"
    ELSE IF ~Head(recs).is_dict THEN "crashed"
    ELSE IF Matches(SlugOf(Head(recs).url), target_name) THEN "found"
    ELSE Scan(Tail(recs), target_name)

\* Line 94: not query or not target_name
SkipsRow(r) == ~Truthy(r.query) \/ SlugOf(r.url) = <<>>

\* The row is scored: lines 117-118 are reached and pass.
ReachesScoring(r, resp) == ~SkipsRow(r) /\ resp.kind \in {"recs_null", "recs"}

\* An exception no except clause catches ends the run.
Crashes(r, resp) ==
    /\ ~SkipsRow(r)
    /\ \/ resp.kind \in {"not_dict", "recs_null"}
       \/ resp.kind = "recs" /\ Scan(resp.recs, SlugOf(r.url)) = "crashed"

\* Lines 157-158.
IsHit(r, resp) ==
    /\ ~SkipsRow(r) /\ resp.kind = "recs"
    /\ Scan(resp.recs, SlugOf(r.url)) = "found"

\* One iteration of the loop of lines 88-158.  The call is only made when
\* the row is not skipped.
VisitRow(r, resp) ==
    /\ eval_pc = "loop" /\ rows_left > 0
    /\ rows_left' = rows_left - 1
    /\ row' = r
    /\ response' = IF SkipsRow(r) THEN NoCall ELSE resp
    /\ processed' = IF ReachesScoring(r, resp) THEN processed + 1 ELSE processed
    /\ success_count' = IF IsHit(r, resp) THEN success_count + 1 ELSE success_count
    /\ eval_pc' = IF Crashes(r, resp) THEN "crashed" ELSE "loop"
    /\ UNCHANGED <<has_query_col, report>>
    /\ UNCHANGED <<rerank_vars, pipeline_vars, norm_vars>>

\* Lines 160-165: the final report.
Finish ==
    /\ eval_pc = "loop" /\ rows_left = 0
    /\ report' = IF processed > 0
                 THEN [kind |-> "recall", hits |-> success_count, of |-> processed]
                 ELSE [kind |-> "no_data", hits |-> 0, of |-> 0]
    /\ eval_pc' = "done"
    /\ UNCHANGED <<has_query_col, rows_left, row, response, processed, success_count>>
    /\ UNCHANGED <<rerank_vars, pipeline_vars, norm_vars>>

\* The cells of a row.  Without a 'Query' column row.get gives its default.
QueryCells == IF has_query_col THEN {TextCell(QJava), NaNCell} ELSE {AbsentCell}
UrlCells == {TextCell(UJavaDev), TextCell(UJava), TextCell(UNoSlug), NaNCell}
Rows == {[query |-> q, url |-> u] : q \in QueryCells, u \in UrlCells}

\* The recommendations answered during a whole run, and to a single record.
EvalItems == {DictItem(TextCell(UJavascript)), DictItem(TextCell(USql)),
              DictItem(AbsentCell), NonDictItem}
MatchItems == EvalItems \cup {DictItem(TextCell(UJava)), DictItem(TextCell(UJavaDevTest)),
                              DictItem(NoneCell)}

\* The outcomes of the call for row r.  A skipped row makes no call.  For a
\* NaN query the body json={"query": NaN} is no JSON: requests refuses to
\* encode it, or sends the literal NaN, which the API cannot accept as a
\* query string; the call fails one way or the other.
OutcomesFor(r, items, maxlen) ==
    IF SkipsRow(r) THEN {NoCall}
    ELSE IF r.query.kind = "nan"
         THEN {[kind |-> k, recs |-> <<>>] : k \in {"request_error", "api_error"}}
         ELSE CallOutcomes(items, maxlen)

InitEvalWith(rows) ==
    /\ has_query_col \in BOOLEAN
    /\ rows_left \in rows
    /\ row = NoRow /\ response = NoCall
    /\ processed = 0 /\ success_count = 0          \* lines 84-85
    /\ eval_pc = "loop" /\ report = NoReport
    /\ model = FALSE /\ query = "" /\ results = <<>> /\ well_formed = TRUE
    /\ llm_requested = FALSE /\ llm_response = NoResponse /\ rr = NotCalled
    /\ prompt = <<>>
    /\ engine = FALSE /\ job_query = "" /\ test_type = "All Types" /\ limit = 10
    /\ search_failed = FALSE /\ retrieved = <<>> /\ session_results = <<>>
    /\ search_pressed = FALSE
    /\ NormIdle

\* A run over a dataset of up to MaxRows rows.
InitEval == InitEvalWith(0..MaxRows)

VisitNextRow ==
    /\ eval_pc = "loop" /\ rows_left > 0
    /\ \E r \in Rows :
         \E resp \in OutcomesFor(r, EvalItems, MaxEvalRecs) :
           VisitRow(r, resp)

NextEval == VisitNextRow \/ Finish

SpecEval == InitEval /\ [][NextEval]_vars

\* The scoring of a single record, with longer answers.
InitMatch == InitEvalWith({1})

ScoreRecord ==
    /\ eval_pc = "loop" /\ rows_left > 0
    /\ \E r \in Rows :
         \E resp \in OutcomesFor(r, MatchItems, MaxRecs) :
           VisitRow(r, resp)

NextMatch == ScoreRecord \/ Finish

SpecMatch == InitMatch /\ [][NextMatch]_vars

----------------------------------------------------------------------------
(* Properties of LLMHandler.rerank, checked under SpecRerank.              *)

HasDuplicates(s) == \E i, j \in 1..Len(s) : i < j /\ s[i] = s[j]

\* A JSON integer inside [0, n): what the specification calls a valid index.
IsIntegerInRange(e, n) == e.t = "int" /\ 0 <= e.v /\ e.v < n

IntegerInRangeCount(items, n) ==
    Cardinality({j \in 1..Len(items) : IsIntegerInRange(items[j], n)})

\* s with only the first occurrence of each element kept.
RECURSIVE KeepFirst(_)
KeepFirst(s) ==
    IF s = <<>> THEN <<>>
    ELSE LET front == KeepFirst(SubSeq(s, 1, Len(s) - 1))
             last  == s[Len(s)]
         IN  IF \E i \in 1..Len(front) : front[i] = last THEN front
             ELSE Append(front, last)

\* C1: when the model is not configured or the candidate list is empty,
\* rerank returns exactly candidates[:10] and issues no LLM request.
C1_FallbackIdentity ==
    (rr.status # "idle" /\ (~model \/ results = <<>>))
        => (rr = Returned(Take(results, 10)) /\ ~llm_requested)

C1_Witness ==
    /\ rr.status = "returned" /\ ~model /\ ~llm_requested
    /\ Len(results) > 10 /\ Len(rr.value) = 10

\* A malformed LLM outcome: the request raised, the text is not JSON or
\* holds no array, the array is empty, or every entry is a non-integer or
\* lies outside [0, len(candidates)).
MalformedOutcome ==
    /\ llm_requested
    /\ \/ llm_response.kind \in {"request_error", "parse_error", "not_iterable", "non_array"}
       \/ /\ llm_response.kind = "array"
          /\ IntegerInRangeCount(llm_response.items, Len(results)) = 0

\* C2: for any malformed LLM outcome rerank does not raise and returns
\* exactly candidates[:10].
C2_MalformedFallsBack ==
    MalformedOutcome => rr = Returned(Take(results, 10))

\* C3: the returned list has at most 10 entries, and fewer than 10 only if
\* the candidate list itself has fewer than 10.
C3_SizeBound ==
    rr.status = "returned"
        => /\ Len(rr.value) <= 10
           /\ (Len(rr.value) < 10 => Len(results) < 10)

\* C4: the returned list never contains the same assessment twice; of a
\* repeated index only the first occurrence is kept, and the kept
\* selections stay in the order the model returned them.
C4_NoDuplicates ==
    rr.status = "returned"
        => /\ ~HasDuplicates(rr.value)
           /\ (llm_requested /\ llm_response.kind = "array"
               /\ Selected(llm_response.items, results) # <<>>)
                 => LET kept == KeepFirst(Selected(llm_response.items, results))
                    IN  /\ Len(rr.value) >= Len(kept)
                        /\ SubSeq(rr.value, 1, Len(kept)) = kept

\* C5: with at least 5 candidates and between 1 and 4 valid indices in the
\* answer (repeats allowed), the result has at least min(5, len(candidates))
\* entries.
C5_MinimumSize ==
    (/\ llm_requested /\ llm_response.kind = "array"
     /\ Len(results) >= 5
     /\ IntegerInRangeCount(llm_response.items, Len(results)) \in 1..4)
        => (rr.status = "returned" /\ Len(rr.value) >= Min(5, Len(results)))

C5_Witness ==
    /\ llm_requested /\ llm_response.kind = "array"
    /\ Len(results) = 6
    /\ IntegerInRangeCount(llm_response.items, Len(results)) = 2
    /\ HasDuplicates(llm_response.items)
    /\ rr.status = "returned" /\ Len(rr.value) >= 5

----------------------------------------------------------------------------
(* Properties of the recommendation pipeline, checked under SpecPipeline.  *)

\* The type filter removes every retrieved candidate.
FilterRemovesAll ==
    /\ test_type # AllTypes
    /\ \A i \in 1..Len(retrieved) : ~IsSubstring(<<test_type>>, retrieved[i].test_type)

\* C6: whatever the retriever and the reranker do, the stored result has at
\* most limit entries, and it is empty when the retriever is unavailable,
\* the retrieval fails or the filter removes every candidate.
C6_PipelineSize ==
    search_pressed
        => /\ Len(session_results) <= limit
           /\ (~engine \/ search_failed \/ FilterRemovesAll) => session_results = <<>>

C6_Witness ==
    /\ search_pressed /\ engine /\ ~search_failed
    /\ rr.status = "returned" /\ Len(rr.value) > 10
    /\ limit < 10 /\ Len(session_results) = limit

----------------------------------------------------------------------------
(* Properties of extract_assessment_name, checked under SpecNorm.          *)

\* C7: normalizing a normalized name changes nothing:
\* extract_assessment_name(extract_assessment_name(x)) ==
\* extract_assessment_name(x).
C7_Idempotent ==
    norm_pc = "twice" => name_again = name

C7_Witness ==
    /\ norm_pc = "twice" /\ url.is_str
    /\ \E i \in 1..Len(url.s) : url.s[i] = "%"
    /\ \E i \in 1..Len(url.s) : url.s[i] = "B"
    /\ name # <<>> /\ name # url.s /\ name_again = name

\* The result as the specification words it, one step after the other, each
\* step given by the positions it keeps.
Positions(s, Keep(_)) == {i \in 1..Len(s) : Keep(i)}

\* The elements of s at the positions K, in order.
AtPositions(s, K) ==
    [j \in 1..Cardinality(K) |-> s[CHOOSE i \in K : Cardinality({k \in K : k <= i}) = j]]

\* s without its leading and trailing elements that belong to chars.
Trimmed(s, chars) ==
    LET inner == {i \in 1..Len(s) : s[i] \notin chars}
    IN  IF inner = {} THEN <<>>
        ELSE SubSeq(s, CHOOSE i \in inner : \A k \in inner : i <= k,
                       CHOOSE i \in inner : \A k \in inner : k <= i)

SpecifiedSlug(u) ==
    IF ~u.is_str THEN <<>>
    ELSE
    LET t       == Trimmed(u.s, Whitespace)
        marks   == {i \in 1..Len(t) : t[i] \in {"?", "#"}}
        kept    == IF marks = {} THEN t
                   ELSE SubSeq(t, 1, (CHOOSE i \in marks : \A k \in marks : i <= k) - 1)
        path    == Trimmed(Unquote(kept), {"/"})
        slashes == {i \in 1..Len(path) : path[i] = "/"}
        segment == IF slashes = {} THEN path
                   ELSE SubSeq(path, (CHOOSE i \in slashes : \A k \in slashes : k <= i) + 1,
                               Len(path))
        low     == Lower(segment)
        only    == AtPositions(low, {i \in 1..Len(low) : IsSlugChar(low[i])})
        single  == AtPositions(only, {i \in 1..Len(only) :
                                        ~(only[i] = "-" /\ i > 1 /\ only[i - 1] = "-")})
    IN  Trimmed(single, {"-"})

\* C8: extract_assessment_name returns "" for an empty, whitespace-only or
\* non-string argument, and otherwise the last non-empty '/'-separated
\* segment of what is left after dropping everything from the first '?' or
\* '#', percent-decoding and trimming '/': lower-cased, reduced to
\* [a-z0-9-], with runs of '-' collapsed and leading and trailing '-'
\* removed; "https://x.com/Foo-Bar/?q=1" gives "foo-bar" and "/a/b/c/"
\* gives "c".
C8_NormalizerResult ==
    norm_pc # "input"
        => /\ name = SpecifiedSlug(url)
           /\ (~url.is_str \/ \A i \in 1..Len(url.s) : url.s[i] \in Whitespace) => name = <<>>
           /\ url = Str(UrlFooBar) => name = <<"f","o","o","-","b","a","r">>
           /\ url = Str(PathABC) => name = <<"c">>

C8_Witness ==
    /\ norm_pc = "once" /\ url = Str(UrlFooBar)
    /\ name = <<"f","o","o","-","b","a","r">>

----------------------------------------------------------------------------
(* Properties of calculate_metrics: the matching rule under SpecMatch, the *)
(* counters under SpecEval.                                                *)

HasSuffix(s, t) == \E k \in 0..Len(s) : SubSeq(s, k + 1, Len(s)) = t

Contains(outer, inner) ==
    \E i \in 1..(Len(outer) + 1), j \in 0..Len(outer) : SubSeq(outer, i, j) = inner

\* R == E, R ends-with E, E ends-with R, E contains R, or R contains E.
RuleHolds(R, E) ==
    R = E \/ HasSuffix(R, E) \/ HasSuffix(E, R) \/ Contains(E, R) \/ Contains(R, E)

\* Some returned candidate's normalized slug satisfies the rule.
SomeCandidateMatches(r, resp) ==
    \E i \in 1..Len(resp.recs) : RuleHolds(SlugOf(resp.recs[i].url), SlugOf(r.url))

\* Some returned candidate's non-empty normalized slug satisfies the rule.
SomeNamedCandidateMatches(r, resp) ==
    \E i \in 1..Len(resp.recs) :
        /\ SlugOf(resp.recs[i].url) # <<>>
        /\ RuleHolds(SlugOf(resp.recs[i].url), SlugOf(r.url))

\* This step processed a record to the end of its scoring.
ScoredStep ==
    rows_left' = rows_left - 1 /\ processed' = processed + 1 /\ eval_pc' = "loop"

SlugJava == <<"j","a","v","a">>
SlugJavaDev == <<"j","a","v","a","-","d","e","v","e","l","o","p","e","r">>

\* C9 as stated: a processed record is a hit if and only if some returned
\* candidate's normalized slug R satisfies the relaxed rule against the
\* expected slug E, and it is counted once.
C9_HitIffSomeMatch ==
    [][ScoredStep =>
          success_count' = success_count
                           + (IF SomeCandidateMatches(row', response') THEN 1 ELSE 0)]_vars

\* C9 as amended: a processed record is a hit if and only if some returned
\* candidate's non-empty normalized slug R satisfies the relaxed rule
\* against E; it is counted once however many candidates match;
\* "java-developer" against "java-developer-test" and "java" against
\* "javascript" are hits.
C9_HitIffSomeNamedMatch ==
    [][ScoredStep =>
          /\ success_count' = success_count
                   + (IF SomeNamedCandidateMatches(row', response') THEN 1 ELSE 0)
          /\ (SlugOf(row'.url) = SlugJavaDev
              /\ response'.recs = <<DictItem(TextCell(UJavaDevTest))>>)
                => success_count' = success_count + 1
          /\ (SlugOf(row'.url) = SlugJava
              /\ response'.recs = <<DictItem(TextCell(UJavascript))>>)
                => success_count' = success_count + 1]_vars

C9_Witness ==
    /\ eval_pc = "loop" /\ rows_left = 0 /\ processed = 1 /\ success_count = 1
    /\ SlugOf(row.url) = SlugJavaDev
    /\ response.recs = <<DictItem(TextCell(UJavaDevTest)), DictItem(TextCell(UJava))>>

\* The record counts by the claim's wording: a non-empty query, an
\* Assessment_url that is there and normalizes to a non-empty slug, and a
\* call answered with status 200 and parseable JSON.
CountsAsProcessed(r, resp) ==
    /\ r.query.kind = "text" /\ r.query.s # <<>>
    /\ r.url.kind = "text" /\ SlugOf(r.url) # <<>>
    /\ resp.kind \in {"not_dict", "recs_null", "recs"}

\* C10: processed counts exactly the records with a non-empty query, a
\* non-empty expected slug (a missing query or Assessment_url is skipped)
\* and a call answered with status 200 and parseable JSON; every other
\* record changes neither processed nor the hit count; hits <= processed
\* at every step; the reported recall is hits / processed.
C10_Denominator ==
    /\ [](success_count <= processed)
    /\ [][(rows_left' = rows_left - 1 /\ eval_pc' = "loop")
            => IF CountsAsProcessed(row', response')
               THEN processed' = processed + 1
               ELSE processed' = processed /\ success_count' = success_count]_vars
    /\ []((eval_pc = "done" /\ processed > 0)
            => report = [kind |-> "recall", hits |-> success_count, of |-> processed])

\* C11: whatever each record's call comes to (request exception or timeout,
\* non-200 status, unparsable body, parsed body of unexpected shape), no
\* record aborts the run: every record is visited and the run ends by
\* printing the recall (processed > 0) or the "no data" message
\* (processed = 0), never dividing by zero.
C11_RunCompletes ==
    /\ eval_pc # "crashed"
    /\ eval_pc = "done"
         => /\ rows_left = 0
            /\ report.kind = (IF processed > 0 THEN "recall" ELSE "no_data")
            /\ report.kind = "recall" => report.of > 0

----------------------------------------------------------------------------
(* The top-up and the numbering of the candidates, checked under           *)
(* SpecRerank.                                                             *)

\* The candidates the answer selects by its integers inside [0, n), in the
\* order of the answer.
RECURSIVE IntegerSelections(_, _)
IntegerSelections(items, res) ==
    IF items = <<>> THEN <<>>
    ELSE IF IsIntegerInRange(Head(items), Len(res))
         THEN <<At(res, Head(items).v)>> \o IntegerSelections(Tail(items), res)
         ELSE IntegerSelections(Tail(items), res)

\* The candidates no such integer selects, in retrieval order.
Unselected(items, res) ==
    LET chosen == {items[j].v : j \in {i \in 1..Len(items) : IsIntegerInRange(items[i], Len(res))}}
    IN  AtPositions(res, {i \in 1..Len(res) : (i - 1) \notin chosen})

\* C12: with k valid selections, 1 <= k < 5, the result is the selections in
\* the model's order followed by the unselected candidates in retrieval
\* order, and the appending stops as soon as the result has 5 entries (or
\* the candidates run out); with k >= 5 nothing is appended.
C12_TopUpStopsAtMinimum ==
    (llm_requested /\ llm_response.kind = "array")
        => LET sel == IntegerSelections(llm_response.items, results)
               k   == Len(sel)
           IN  /\ k \in 1..4
                    => rr = Returned(sel \o Take(Unselected(llm_response.items, results), 5 - k))
               /\ k >= 5 => rr = Returned(sel)

\* The candidate the prompt presents under the number num.
IsPresented(num) == \E i \in 1..Len(prompt) : prompt[i].number = num
PresentedUnder(num) == prompt[CHOOSE i \in 1..Len(prompt) : prompt[i].number = num].cand

\* The answer's integers inside [0, len(candidates)), in the order of the
\* answer.
RECURSIVE IntegersInRange(_, _)
IntegersInRange(items, n) ==
    IF items = <<>> THEN <<>>
    ELSE IF IsIntegerInRange(Head(items), n)
         THEN <<Head(items).v>> \o IntegersInRange(Tail(items), n)
         ELSE IntegersInRange(Tail(items), n)

\* C13: every candidate is presented in the prompt under its position in
\* the candidate list, an index i of the answer selects exactly the
\* candidate presented under number i, and answer entries that are no
\* integers or lie outside [0, len(candidates)) select nothing.
C13_IndexAgreement ==
    (llm_requested /\ llm_response.kind = "array" /\ rr.status = "returned")
        => LET ints == IntegersInRange(llm_response.items, Len(results))
           IN  /\ \A i \in 1..Len(prompt) :
                     prompt[i].number = i - 1 /\ prompt[i].cand = At(results, i - 1)
               /\ Len(rr.value) >= Len(ints)
               /\ \A m \in 1..Len(ints) :
                     IsPresented(ints[m]) /\ rr.value[m] = PresentedUnder(ints[m])
               /\ ints = <<>> => rr.value = Take(results, 10)

====
